---- MODULE Spec2Model ----
(***************************************************************************)
(* Rank service: an HTTP front for a group-management API.                 *)
(*                                                                         *)
(* Two entry points live in the repository and both are modelled:          *)
(*   "server" : src/server.mjs        (session flag `authed`, retry loop)  *)
(*   "legacy" : src/unnamed/part_000  (session flag `loggedIn`, no retry)  *)
(* A behaviour runs one of them (variable `program`).  Every `await` of a  *)
(* handler is a step boundary; the code between two awaits is one action.  *)
(*                                                                         *)
(* Three specifications:                                                   *)
(*   Spec     : requests are served one after the other                    *)
(*   SpecLive : Spec, every issued remote call settling                    *)
(*   SpecConc : requests of server.mjs overlap; the remote session may     *)
(*              expire once                                                *)
(***************************************************************************)
EXTENDS Integers, Sequences, FiniteSets, TLC

(***************************************************************************)
(* Bounds of the model.                                                    *)
(***************************************************************************)
\* role ids 1..MaxRoleId exist in the group
MaxRoleId == 2
\* request slots; the sequential specification below serves every request
\* in slot 1, the concurrent one uses them all
NumSlots == 3

Slots == 1..NumSlots

(***************************************************************************)
(* JavaScript values that occur in request bodies.                         *)
(*   t = "undefined" | "null" | "number" | "nan" | "numstr" | "text"       *)
(* "numstr" is the string of the decimal digits of v, "text" a non-empty   *)
(* string that is not numeric.                                             *)
(***************************************************************************)
Undef == [t |-> "undefined", v |-> 0]

Null == [t |-> "null", v |-> 0]

NaN == [t |-> "nan", v |-> 0]

Text == [t |-> "text", v |-> 0]

Num(n) == [t |-> "number", v |-> n]

NumStr(n) == [t |-> "numstr", v |-> n]

\* !x is false
Truthy(x) ==
    CASE x.t = "undefined" -> FALSE
      [] x.t = "null" -> FALSE
      [] x.t = "nan" -> FALSE
      [] x.t = "number" -> x.v # 0
      [] OTHER -> TRUE

\* x != null
NotNullish(x) == x.t \notin {"undefined", "null"}

\* Number(x)
ToNumber(x) ==
    CASE x.t = "number" -> x
      [] x.t = "numstr" -> Num(x.v)
      [] x.t = "null" -> Num(0)
      [] OTHER -> NaN

\* a === b on two results of Number()
StrictEqNum(a, b) == a.t = "number" /\ b.t = "number" /\ a.v = b.v

\* isNaN(Number(x))
IsNaNNumber(x) == ToNumber(x).t = "nan"

(***************************************************************************)
(* The group's role list as the remote API returns it: [{id, rank}].       *)
(***************************************************************************)
GroupRoles == [k \in 1..MaxRoleId |-> [id |-> Num(k), rank |-> Num(10 * (k - 1))]]

FindRoleId(roles, roleId) ==
    LET hits == {k \in 1..Len(roles) : roles[k].id = roleId}
    IN IF hits = {} THEN Undef
       ELSE roles[CHOOSE k \in hits : \A j \in hits : k <= j].id

\* roles.find(r => Number(r.id) === Number(roleId)); Undef when none matches
FindRole(roles, roleId) ==
    LET hits == {k \in 1..Len(roles) : StrictEqNum(ToNumber(roles[k].id), ToNumber(roleId))}
    IN IF hits = {} THEN Undef
       ELSE roles[CHOOSE k \in hits : \A j \in hits : k <= j].rank

AnyRole(roles, roleId) == TRUE

\* !!role, for the role that find returns
HasRole(roles, roleId) ==
    \E k \in 1..Len(roles) : StrictEqNum(ToNumber(roles[k].id), ToNumber(roleId))

(***************************************************************************)
(* Failure messages.  A message is named by a string; MsgText gives its    *)
(* characters, which is what isCsrfError inspects.                         *)
(***************************************************************************)
MsgNoToken == "Did not receive X-CSRF-TOKEN"

MsgLowerCsrf == "xcsrf rejected"

MsgNotFound == "User not found"

MsgSanity == "Roblox auth sanity check failed"

RemoteMsgs == {MsgNoToken, MsgLowerCsrf, MsgNotFound}

MsgText(m) ==
    CASE m = MsgNoToken ->
           <<"D","i","d"," ","n","o","t"," ","r","e","c","e","i","v","e"," ",
             "X","-","C","S","R","F","-","T","O","K","E","N">>
      [] m = MsgLowerCsrf ->
           <<"x","c","s","r","f"," ","r","e","j","e","c","t","e","d">>
      [] m = MsgNotFound ->
           <<"U","s","e","r"," ","n","o","t"," ","f","o","u","n","d">>
      [] OTHER ->
           <<"R","o","b","l","o","x"," ","a","u","t","h"," ","s","a","n","i","t","y",
             " ","c","h","e","c","k"," ","f","a","i","l","e","d">>

\* the i flag of the regular expression, on the letters it names
Upper(c) ==
    CASE c = "x" -> "X"
      [] c = "c" -> "C"
      [] c = "s" -> "S"
      [] c = "r" -> "R"
      [] c = "f" -> "F"
      [] OTHER -> c

\* does pattern p (upper case) occur in s at position k, ignoring case
MatchAtNoCase(s, k, p) ==
    /\ k + Len(p) - 1 <= Len(s)
    /\ \A j \in 1..Len(p) : Upper(s[k + j - 1]) = p[j]

\* msg.includes(p)
Includes(s, p) ==
    \E k \in 1..Len(s) :
        /\ k + Len(p) - 1 <= Len(s)
        /\ \A j \in 1..Len(p) : s[k + j - 1] = p[j]

\* /X-?CSRF/i.test(msg)
RegexXCsrf(s) ==
    \E k \in 1..Len(s) :
        \/ MatchAtNoCase(s, k, <<"X","C","S","R","F">>)
        \/ MatchAtNoCase(s, k, <<"X","-","C","S","R","F">>)

AlwaysCsrf(m) == TRUE

\* isCsrfError(err), on the message of err
isCsrfError(m) ==
    \/ RegexXCsrf(MsgText(m))
    \/ Includes(MsgText(m), MsgText(MsgNoToken))

\* withAuthRetry(fn, tries = 3)
tries == 3

(***************************************************************************)
(* State.                                                                  *)
(***************************************************************************)
VARIABLES
    program,    \* which entry point this process runs: "server" or "legacy"
    authed,     \* server.mjs: let authed = false
    loggedIn,   \* part_000:   let loggedIn = false
    req,        \* per slot: the request being handled and the handler's position
    fresh,      \* no request has been received since process start
    prev,       \* the request completed last: its input and applied rank
    config,     \* process.env: the three mandatory settings
    proc,       \* "starting" | "listening" | "exited"
    exitCode,   \* the argument of process.exit, once proc = "exited"
    session,    \* the remote side holds a valid session for the cookie
    expired     \* the remote session has expired once

vars == <<program, authed, loggedIn, req, fresh, prev, config, proc, exitCode, session,
          expired>>

\* the process after startup, and the remote side
env == <<config, proc, exitCode>>

remote == <<session, expired>>

NoResp ==
    [status |-> 0, kind |-> "none", ok |-> "absent", error |-> "", appliedRank |-> Undef,
     rankNumber |-> Undef, groupId |-> "absent"]

NoPrev == [route |-> "none", robloxId |-> Undef, roleId |-> Undef, rankNumber |-> Undef,
           appliedRank |-> Undef]

IdleReq ==
    [pc |-> "idle", route |-> "none", key |-> "none",
     robloxId |-> Undef, roleId |-> Undef, rankNumber |-> Undef, username |-> Undef,
     first |-> FALSE, repeat |-> FALSE, prevApplied |-> Undef,
     call |-> 0, step |-> "none", i |-> 0, nLogin |-> 0, nOp |-> 0, nCsrf |-> 0,
     loginFailed |-> FALSE, err |-> "", issued |-> {}, fetched |-> FALSE,
     swallowed |-> FALSE,
     rankToSet |-> Null, setRankArg |-> Null, target |-> Undef,
     reply |-> "none", resp |-> NoResp, nResp |-> 0]

\* a mandatory setting is unset, or set to some string
EnvStrings == {Undef, Text}

\* GROUP_ID is unset, the digits of a number, or some other string
GroupIdEnv == {Undef, NumStr(7), Text}

Configs == [cookie : EnvStrings, groupId : GroupIdEnv, secret : EnvStrings]

\* server.mjs: Number(process.env.ROBLOX_GROUP_ID || process.env.GROUP_ID || 0)
ServerGroupId(cfg) == ToNumber(IF Truthy(cfg.groupId) THEN cfg.groupId ELSE Num(0))

SecretNotChecked(prog, cfg) ==
    /\ Truthy(cfg.cookie)
    /\ Truthy(IF prog = "server" THEN ServerGroupId(cfg) ELSE cfg.groupId)

\* none of the startup checks calls process.exit(1)
ConfigOk(prog, cfg) ==
    IF prog = "server"
    THEN Truthy(cfg.cookie) /\ Truthy(ServerGroupId(cfg)) /\ Truthy(cfg.secret)
    ELSE Truthy(cfg.groupId) /\ Truthy(cfg.cookie) /\ Truthy(cfg.secret)

Init ==
    /\ program \in {"server", "legacy"}
    /\ authed = FALSE
    /\ loggedIn = FALSE
    /\ req = [r \in Slots |-> IdleReq]
    /\ fresh = TRUE
    /\ prev = NoPrev
    /\ config \in Configs
    /\ proc = "starting"
    /\ exitCode = 0
    /\ session = FALSE
    /\ expired = FALSE

(***************************************************************************)
(* Requests the callers may send.                                          *)
(***************************************************************************)
Keys == {"none", "wrong", "right"}

ServerRoutes == {"/health", "/ranks", "/accept-join", "/set-rank", "/remove",
                 "/ensure-member-and-rank"}

RobloxIds == {Undef, Num(7), NumStr(7), Text}

RoleIds == {Undef} \cup {Num(k) : k \in 1..(MaxRoleId + 1)}

RankNumbers == {Undef, Num(5)}

\* the fields a route reads; the others are left out of the body
Reads(route, field) ==
    CASE field = "robloxId" ->
           route \in {"/accept-join", "/set-rank", "/remove", "/ensure-member-and-rank"}
      [] field \in {"roleId", "rankNumber"} ->
           route \in {"/set-rank", "/ensure-member-and-rank"}
      [] OTHER -> FALSE

\* the session-invalidity signature, as the remote API words it
SignatureMsgs == {MsgNoToken, MsgLowerCsrf}

(***************************************************************************)
(* Helpers on one request record.                                          *)
(***************************************************************************)
\* res.status(status).json(body): the handler's answer
Respond(rq, status, ok, error, applied) ==
    [rq EXCEPT !.pc = "done",
               !.resp = [status |-> status, kind |-> "json", ok |-> ok, error |-> error,
                         appliedRank |-> applied, rankNumber |-> Undef,
                         groupId |-> "absent"],
               !.nResp = @ + 1]

\* res.sendStatus / res.send: a plain-text answer
RespondText(rq, status) ==
    [rq EXCEPT !.pc = "done",
               !.resp = [status |-> status, kind |-> "text", ok |-> "absent", error |-> "",
                         appliedRank |-> Undef, rankNumber |-> Undef,
                         groupId |-> "absent"],
               !.nResp = @ + 1]

\* the remote call a step of a handler makes
OpKind(step) ==
    CASE step = "roles" -> "getRoles"
      [] step = "accept" -> "handleJoinRequest"
      [] step = "rank" -> "setRank"
      [] step = "exile" -> "exile"
      [] OTHER -> "none"

SameCodeEverywhere(route) == "set_rank_failed"

\* the error code of a route's catch block
FailCode(route) ==
    CASE route = "/ranks" -> "ranks_failed"
      [] route = "/accept-join" -> "accept_join_failed"
      [] route = "/set-rank" -> "set_rank_failed"
      [] route = "/remove" -> "remove_failed"
      [] OTHER -> "ensure_member_rank_failed"

EnterEnsureAuthAlways(rq, flag) ==
    [rq EXCEPT !.pc = "awaitCookie", !.nLogin = @ + 1,
               !.issued = @ \cup {"setCookie"}]

\* ensureAuth() up to its first await: the flag is read, and when it is
\* false the login call is issued before control is given up
EnterEnsureAuth(rq, flag) ==
    IF flag
    THEN [rq EXCEPT !.pc = IF rq.step = "health" THEN "resume" ELSE "callOp"]
    ELSE [rq EXCEPT !.pc = "awaitCookie", !.nLogin = @ + 1,
                    !.issued = @ \cup {"setCookie"}]

\* withAuthRetry(fn): first pass of the loop, up to the first await
BeginCall(rq, step, flag) ==
    EnterEnsureAuth([rq EXCEPT !.call = @ + 1, !.step = step, !.i = 1, !.nLogin = 0,
                               !.nOp = 0, !.nCsrf = 0, !.loginFailed = FALSE,
                               !.err = ""], flag)

RetriesOnceMore(rq, m) == rq.step # "health" /\ isCsrfError(m) /\ rq.i <= tries

\* the catch block of withAuthRetry retries this failure
Retries(rq, m) == rq.step # "health" /\ isCsrfError(m) /\ rq.i < tries

CaughtUnhandled(rq, m) ==
    IF Retries(rq, m)
    THEN [rq EXCEPT !.pc = "delay", !.err = m]
    ELSE [rq EXCEPT !.pc = "unhandled", !.err = m]

\* the catch block of withAuthRetry: retry after the delay, or rethrow
Caught(rq, m) ==
    IF Retries(rq, m)
    THEN [rq EXCEPT !.pc = "delay", !.err = m]
    ELSE [rq EXCEPT !.pc = "resume", !.err = m]

FlagKept(rq, m, flag) == flag

\* the session flag after the catch block: authed = false before a retry
FlagAfterCatch(rq, m, flag) == IF Retries(rq, m) THEN FALSE ELSE flag

AnyKeyPresent(key) == key # "none"

\* requireSecret(req, res): got === SERVICE_SECRET
requireSecret(key) == key = "right"

\* rank resolution of /set-rank and /ensure-member-and-rank, up to its first await
ResolveRank(rq, flag) ==
    IF NotNullish(rq.roleId)
    THEN BeginCall(rq, "roles", flag)
    ELSE IF NotNullish(rq.rankNumber)
         THEN BeginCall([rq EXCEPT !.rankToSet = ToNumber(rq.rankNumber)], "rank", flag)
         ELSE Respond(rq, 400, "absent", "missing_roleId_or_rankNumber", Undef)

\* a handler of server.mjs from its first line up to its first await
Handle(rq, flag) ==
    IF rq.route = "/health"
    THEN EnterEnsureAuth([rq EXCEPT !.step = "health"], flag)
    ELSE IF ~requireSecret(rq.key)
    THEN Respond(rq, 401, "absent", "unauthorized", Undef)
    ELSE IF rq.route = "/ranks"
    THEN BeginCall(rq, "roles", flag)
    ELSE IF ~Truthy(rq.robloxId)
    THEN Respond(rq, 400, "absent", "missing_robloxId", Undef)
    ELSE CASE rq.route = "/accept-join" -> BeginCall(rq, "accept", flag)
           [] rq.route = "/remove" -> BeginCall(rq, "exile", flag)
           [] rq.route = "/set-rank" -> ResolveRank(rq, flag)
           [] OTHER -> BeginCall(rq, "accept", flag)

AfterAcceptSurfaced(rq, flag) ==
    IF rq.err # ""
    THEN Respond(rq, 500, "absent", FailCode(rq.route), Undef)
    ELSE ResolveRank(rq, flag)

\* /ensure-member-and-rank after its accept-join step: a failure is ignored
AfterAccept(rq, flag) == ResolveRank([rq EXCEPT !.swallowed = rq.err # ""], flag)

\* a handler of server.mjs after a withAuthRetry call (or ensureAuth, for
\* /health) has returned or thrown, up to its next await
Continue(rq, flag) ==
    CASE rq.route = "/health" ->
           IF rq.err = ""
           THEN [Respond(rq, 200, "true", "", Undef) EXCEPT !.resp.groupId = "GROUP_ID"]
           ELSE Respond(rq, 500, "false", rq.err, Undef)
      [] rq.route = "/ensure-member-and-rank" /\ rq.step = "accept" ->
           AfterAccept(rq, flag)
      [] rq.err # "" ->
           Respond(rq, 500, "absent", FailCode(rq.route), Undef)
      [] rq.route = "/ranks" ->
           Respond(rq, 200, "absent", "", Undef)
      [] rq.step = "roles" ->
           IF ~HasRole(GroupRoles, rq.roleId)
           THEN Respond(rq, 400, "absent", "invalid_roleId", Undef)
           ELSE BeginCall([rq EXCEPT !.rankToSet = ToNumber(FindRole(GroupRoles, rq.roleId))],
                          "rank", flag)
      [] rq.step = "rank" ->
           Respond(rq, 200, "true", "", rq.rankToSet)
      [] OTHER ->
           Respond(rq, 200, "true", "", Undef)

(***************************************************************************)
(* Startup of either entry point.                                          *)
(***************************************************************************)
\* the module body runs: the settings are checked, then app.listen is called
Startup ==
    /\ proc = "starting"
    /\ IF ConfigOk(program, config)
       THEN proc' = "listening" /\ UNCHANGED exitCode
       ELSE proc' = "exited" /\ exitCode' = 1
    /\ UNCHANGED <<program, authed, loggedIn, req, fresh, prev, config, remote>>

(***************************************************************************)
(* server.mjs: the steps of a request in slot r.                           *)
(***************************************************************************)
\* a request arrives and its handler runs up to its first await
Receive(r) ==
    /\ program = "server" /\ proc = "listening"
    /\ req[r].pc = "idle"
    /\ \E route \in ServerRoutes, key \in Keys, id \in RobloxIds, role \in RoleIds,
          rank \in RankNumbers :
          /\ Reads(route, "robloxId") \/ id = Undef
          /\ Reads(route, "roleId") \/ role = Undef
          /\ Reads(route, "rankNumber") \/ rank = Undef
          /\ LET same == /\ prev.route = route /\ prev.robloxId = id
                          /\ prev.roleId = role /\ prev.rankNumber = rank
                 rq == [IdleReq EXCEPT !.route = route, !.key = key, !.robloxId = id,
                                       !.roleId = role, !.rankNumber = rank,
                                       !.first = fresh, !.repeat = same,
                                       !.prevApplied = IF same THEN prev.appliedRank
                                                       ELSE Undef]
             IN req' = [req EXCEPT ![r] = Handle(rq, authed)]
    /\ fresh' = FALSE
    /\ prev' = NoPrev
    /\ UNCHANGED <<program, authed, loggedIn, env, remote>>

\* await noblox.setCookie(COOKIE) settles with outcome out: "ok", or the
\* message of the error it throws
SetCookieSettles(r, out) ==
    /\ program = "server"
    /\ req[r].pc = "awaitCookie"
    /\ IF out = "ok"
       THEN /\ req' = [req EXCEPT ![r].pc = "awaitUser",
                                   ![r].issued = @ \cup {"getCurrentUser"},
                                   ![r].reply = "none"]
            /\ UNCHANGED authed
       ELSE /\ req' = [req EXCEPT ![r] = Caught([req[r] EXCEPT !.loginFailed = TRUE,
                                                               !.reply = "none"], out)]
            /\ authed' = FlagAfterCatch(req[r], out, authed)
    /\ UNCHANGED <<program, loggedIn, fresh, prev, env, remote>>

\* await noblox.setCookie(COOKIE) settles, one way or another
SetCookieReturns(r) ==
    /\ req[r].reply = "none"
    /\ \E out \in {"ok"} \cup RemoteMsgs : SetCookieSettles(r, out)

\* await noblox.getCurrentUser() settles with outcome out; the flag is set
\* when it names a user
GetCurrentUserSettles(r, out) ==
    /\ program = "server"
    /\ req[r].pc = "awaitUser"
    /\ IF out = "ok"
       THEN /\ req' = [req EXCEPT ![r].pc = IF req[r].step = "health" THEN "resume"
                                            ELSE "callOp",
                                   ![r].reply = "none"]
            /\ authed' = TRUE
       ELSE /\ req' = [req EXCEPT ![r] = Caught([req[r] EXCEPT !.loginFailed = TRUE,
                                                               !.reply = "none"], out)]
            /\ authed' = FlagAfterCatch(req[r], out, authed)
    /\ UNCHANGED <<program, loggedIn, fresh, prev, env, remote>>

\* await noblox.getCurrentUser() settles, one way or another
GetCurrentUserReturns(r) ==
    /\ req[r].reply = "none"
    /\ \E out \in {"ok"} \cup RemoteMsgs \cup {MsgSanity} : GetCurrentUserSettles(r, out)

\* return await fn(): the wrapped remote call is issued
InvokeOp(r) ==
    /\ program = "server"
    /\ req[r].pc = "callOp"
    /\ req' = [req EXCEPT ![r].pc = "awaitOp",
                          ![r].nOp = @ + 1,
                          ![r].issued = @ \cup {OpKind(req[r].step)},
                          ![r].setRankArg = IF req[r].step = "rank" THEN req[r].rankToSet
                                            ELSE @]
    /\ UNCHANGED <<program, authed, loggedIn, fresh, prev, env, remote>>

\* the wrapped remote call settles with outcome out
OpSettles(r, out) ==
    /\ program = "server"
    /\ req[r].pc = "awaitOp"
    /\ IF out = "ok"
       THEN /\ req' = [req EXCEPT ![r].pc = "resume", ![r].err = "",
                                   ![r].fetched = @ \/ req[r].step = "roles",
                                   ![r].reply = "none"]
            /\ UNCHANGED authed
       ELSE /\ req' = [req EXCEPT ![r] =
                          Caught([req[r] EXCEPT !.nCsrf = IF out \in SignatureMsgs
                                                          THEN @ + 1 ELSE @,
                                                !.reply = "none"], out)]
            /\ authed' = FlagAfterCatch(req[r], out, authed)
    /\ UNCHANGED <<program, loggedIn, fresh, prev, env, remote>>

\* the wrapped remote call settles, one way or another
OpReturns(r) ==
    /\ req[r].reply = "none"
    /\ \E out \in {"ok"} \cup RemoteMsgs : OpSettles(r, out)

\* await delay(1500) ends; continue with the next pass of the loop
DelayElapsed(r) ==
    /\ program = "server"
    /\ req[r].pc = "delay"
    /\ req' = [req EXCEPT ![r] = EnterEnsureAuth([req[r] EXCEPT !.i = @ + 1, !.err = ""],
                                                  authed)]
    /\ UNCHANGED <<program, authed, loggedIn, fresh, prev, env, remote>>

\* the handler goes on after withAuthRetry (or ensureAuth) returned or threw
Resume(r) ==
    /\ program = "server"
    /\ req[r].pc = "resume"
    /\ req' = [req EXCEPT ![r] = Continue(req[r], authed)]
    /\ UNCHANGED <<program, authed, loggedIn, fresh, prev, env, remote>>

\* the answer has been sent; the slot is free again
Close(r) ==
    /\ req[r].pc = "done"
    /\ req' = [req EXCEPT ![r] = IdleReq]
    /\ prev' = IF req[r].route = "/ensure-member-and-rank" /\ req[r].resp.status = 200
               THEN [route |-> req[r].route, robloxId |-> req[r].robloxId,
                     roleId |-> req[r].roleId, rankNumber |-> req[r].rankNumber,
                     appliedRank |-> req[r].resp.appliedRank]
               ELSE NoPrev
    /\ UNCHANGED <<program, authed, loggedIn, fresh, env, remote>>

(***************************************************************************)
(* part_000: the handlers of the earlier entry point.                      *)
(***************************************************************************)
LegacyRoutes == {"/", "/ranks", "/set-rank", "/remove"}

Usernames == {Undef, Text}

\* the error code of a route's catch block
LFailCode(route) ==
    CASE route = "/ranks" -> "get_ranks_failed"
      [] route = "/set-rank" -> "set_rank_failed"
      [] OTHER -> "removal_failed"

\* issue one remote call and wait for it
LIssue(rq, step) ==
    [rq EXCEPT !.pc = "L_op", !.step = step, !.nOp = @ + 1,
               !.issued = @ \cup {OpKind(step)},
               !.setRankArg = IF step = "rank" THEN ToNumber(rq.rankToSet) ELSE @]

\* /remove from the check of the identifier on
LRemoveCheck(rq) ==
    IF ~Truthy(rq.target) \/ IsNaNNumber(rq.target)
    THEN Respond(rq, 400, "absent", "robloxId (or valid username) required", Undef)
    ELSE LIssue(rq, "exile")

\* /set-rank from the check of the target rank on
LRankCheck(rq) ==
    IF ~Truthy(rq.rankToSet) \/ IsNaNNumber(rq.rankToSet)
    THEN Respond(rq, 400, "absent", "rankNumber or roleId required", Undef)
    ELSE LIssue(rq, "rank")

\* a handler after ensureLogin(), up to its next await
LBody(rq) ==
    CASE rq.route = "/ranks" -> LIssue(rq, "roles")
      [] rq.route = "/remove" ->
           IF ~Truthy(rq.robloxId) /\ Truthy(rq.username)
           THEN [rq EXCEPT !.pc = "L_id", !.issued = @ \cup {"getIdFromUsername"}]
           ELSE LRemoveCheck([rq EXCEPT !.target = rq.robloxId])
      [] OTHER ->
           IF ~Truthy(rq.robloxId) \/ IsNaNNumber(rq.robloxId)
           THEN Respond(rq, 400, "absent", "robloxId required", Undef)
           ELSE IF ~Truthy(rq.rankNumber) /\ Truthy(rq.roleId)
                THEN LIssue([rq EXCEPT !.rankToSet = rq.rankNumber], "roles")
                ELSE LRankCheck([rq EXCEPT !.rankToSet = rq.rankNumber])

\* the middleware: !key || key !== SERVICE_SECRET rejects
LSecretOk(key) == key # "none" /\ key = "right"

\* the health route, the shared-secret middleware, and a handler up to the
\* first await of ensureLogin()
LHandle(rq, flag) ==
    IF rq.route = "/"
    THEN RespondText(rq, 200)
    ELSE IF ~LSecretOk(rq.key)
    THEN RespondText(rq, 401)
    ELSE IF flag
    THEN LBody(rq)
    ELSE [rq EXCEPT !.pc = "L_cookie", !.nLogin = @ + 1, !.issued = @ \cup {"setCookie"}]

\* a handler after its remote call returned
LAfterOp(rq) ==
    CASE rq.route = "/ranks" -> Respond(rq, 200, "true", "", Undef)
      [] rq.step = "roles" ->
           IF ~HasRole(GroupRoles, rq.roleId)
           THEN Respond(rq, 400, "absent", "invalid_roleId", Undef)
           ELSE LRankCheck([rq EXCEPT !.rankToSet = FindRole(GroupRoles, rq.roleId)])
      [] rq.step = "rank" ->
           [Respond(rq, 200, "true", "", Undef) EXCEPT
               !.resp.rankNumber = ToNumber(rq.rankToSet)]
      [] OTHER -> Respond(rq, 200, "true", "", Undef)

LReceive(r) ==
    /\ program = "legacy" /\ proc = "listening"
    /\ req[r].pc = "idle"
    /\ \E route \in LegacyRoutes, key \in Keys, id \in RobloxIds, role \in RoleIds,
          rank \in RankNumbers, name \in Usernames :
          /\ Reads(route, "robloxId") \/ id = Undef
          /\ Reads(route, "roleId") \/ role = Undef
          /\ Reads(route, "rankNumber") \/ rank = Undef
          /\ route = "/remove" \/ name = Undef
          /\ LET rq == [IdleReq EXCEPT !.route = route, !.key = key, !.robloxId = id,
                                       !.roleId = role, !.rankNumber = rank,
                                       !.username = name, !.first = fresh]
             IN req' = [req EXCEPT ![r] = LHandle(rq, loggedIn)]
    /\ fresh' = FALSE
    /\ prev' = NoPrev
    /\ UNCHANGED <<program, authed, loggedIn, env, remote>>

\* await noblox.setCookie(ROBLOSECURITY) settles in ensureLogin()
LSetCookieReturns(r) ==
    /\ program = "legacy"
    /\ req[r].pc = "L_cookie"
    /\ \/ /\ loggedIn' = TRUE
          /\ req' = [req EXCEPT ![r] = LBody(req[r])]
       \/ \E m \in RemoteMsgs :
             /\ req' = [req EXCEPT ![r] =
                           Respond([req[r] EXCEPT !.loginFailed = TRUE, !.err = m],
                                   500, "absent", LFailCode(req[r].route), Undef)]
             /\ UNCHANGED loggedIn
    /\ UNCHANGED <<program, authed, fresh, prev, env, remote>>

\* await noblox.getIdFromUsername(username).catch(() => null) settles
LIdReturns(r) ==
    /\ program = "legacy"
    /\ req[r].pc = "L_id"
    /\ \E id \in {Num(7), Null} :
          req' = [req EXCEPT ![r] = LRemoveCheck([req[r] EXCEPT !.target = id])]
    /\ UNCHANGED <<program, authed, loggedIn, fresh, prev, env, remote>>

\* await of getRoles, setRank or exile settles
LOpReturns(r) ==
    /\ program = "legacy"
    /\ req[r].pc = "L_op"
    /\ \/ req' = [req EXCEPT ![r] =
                       LAfterOp([req[r] EXCEPT !.fetched = @ \/ req[r].step = "roles"])]
       \/ \E m \in RemoteMsgs :
             req' = [req EXCEPT ![r] =
                        Respond([req[r] EXCEPT !.err = m], 500, "absent",
                                LFailCode(req[r].route), Undef)]
    /\ UNCHANGED <<program, authed, loggedIn, fresh, prev, env, remote>>

(***************************************************************************)
(* Specification: requests are served one after the other.                 *)
(***************************************************************************)
Quiet == \A q \in Slots : req[q].pc = "idle"

Next ==
    \/ Startup
    \/ \E r \in Slots :
        \/ Quiet /\ r = 1 /\ Receive(r)
        \/ SetCookieReturns(r)
        \/ GetCurrentUserReturns(r)
        \/ InvokeOp(r)
        \/ OpReturns(r)
        \/ DelayElapsed(r)
        \/ Resume(r)
        \/ Quiet /\ r = 1 /\ LReceive(r)
        \/ LSetCookieReturns(r)
        \/ LIdReturns(r)
        \/ LOpReturns(r)
        \/ Close(r)

Spec == Init /\ [][Next]_vars

(***************************************************************************)
(* The same specification with progress: every remote call that has been   *)
(* issued settles, and the event loop runs every continuation that is      *)
(* ready.                                                                  *)
(***************************************************************************)
Progress ==
    \E r \in Slots :
        \/ SetCookieReturns(r)
        \/ GetCurrentUserReturns(r)
        \/ InvokeOp(r)
        \/ OpReturns(r)
        \/ DelayElapsed(r)
        \/ Resume(r)
        \/ LSetCookieReturns(r)
        \/ LIdReturns(r)
        \/ LOpReturns(r)

SpecLive == Spec /\ WF_vars(Progress)

(***************************************************************************)
(* Concurrent specification: requests of server.mjs overlap, and the       *)
(* remote side holds the session, which may expire once.  A remote call is *)
(* served at some moment between its issue and its return; a mutating call *)
(* served without a valid session fails with the signature, and a login    *)
(* restores the session.                                                   *)
(***************************************************************************)
ConcRoutes == {"/remove", "/health"}

\* a request with the right secret and a valid body arrives, whatever the
\* other slots are doing; slots are taken in order
CReceive(r) ==
    /\ program = "server" /\ proc = "listening"
    /\ req[r].pc = "idle"
    /\ \A q \in Slots : q < r => req[q].pc # "idle"
    /\ \E route \in ConcRoutes :
          LET rq == [IdleReq EXCEPT !.route = route, !.key = "right",
                                    !.robloxId = IF Reads(route, "robloxId") THEN Num(7)
                                                 ELSE Undef,
                                    !.first = fresh]
          IN req' = [req EXCEPT ![r] = Handle(rq, authed)]
    /\ fresh' = FALSE
    /\ prev' = NoPrev
    /\ UNCHANGED <<program, authed, loggedIn, env, remote>>

\* the remote API serves the call the request in slot r is waiting for
RemoteServes(r) ==
    /\ req[r].pc \in {"awaitCookie", "awaitUser", "awaitOp"}
    /\ req[r].reply = "none"
    /\ req' = [req EXCEPT ![r].reply = IF req[r].pc = "awaitOp" /\ ~session
                                       THEN MsgNoToken ELSE "ok"]
    /\ session' = (session \/ req[r].pc = "awaitCookie")
    /\ UNCHANGED <<program, authed, loggedIn, fresh, prev, env, expired>>

\* the remote session expires
Expire ==
    /\ session /\ ~expired
    /\ session' = FALSE
    /\ expired' = TRUE
    /\ UNCHANGED <<program, authed, loggedIn, req, fresh, prev, env>>

\* the answer of the remote API reaches the process
ReplyArrives(r) ==
    /\ req[r].reply # "none"
    /\ \/ SetCookieSettles(r, req[r].reply)
       \/ GetCurrentUserSettles(r, req[r].reply)
       \/ OpSettles(r, req[r].reply)

InitConc ==
    /\ Init
    /\ program = "server"
    /\ ConfigOk(program, config)

NextConc ==
    \/ Startup
    \/ Expire
    \/ \E r \in Slots :
        \/ CReceive(r)
        \/ RemoteServes(r)
        \/ ReplyArrives(r)
        \/ InvokeOp(r)
        \/ DelayElapsed(r)
        \/ Resume(r)

SpecConc == InitConc /\ [][NextConc]_vars

(***************************************************************************)
(* Properties.                                                             *)
(***************************************************************************)
\* the session flag of the running entry point
SessionFlag == IF program = "server" THEN authed ELSE loggedIn

\* a request whose X-Secret-Key is absent or wrong, on a route that asks for it
Unauthorized(rq) ==
    rq.pc # "idle" /\ rq.route \notin {"/health", "/"} /\ rq.key # "right"

\* C1: on every route but the health probe, a request without the right
\* secret is answered 401 as soon as it is received, no remote call is
\* issued for it, and the step that handles it leaves the session flag alone.
C1_UnauthorizedRejected ==
    [][\A r \in Slots :
          Unauthorized(req'[r]) =>
              /\ req'[r].pc = "done"
              /\ req'[r].resp.status = 401
              /\ req'[r].issued = {}
              /\ authed' = authed
              /\ loggedIn' = loggedIn]_vars

C1_Witness ==
    \E r \in Slots :
        /\ Unauthorized(req[r])
        /\ req[r].route = "/set-rank"
        /\ req[r].key = "wrong"
        /\ req[r].resp.status = 401
        /\ authed

\* the routes whose handler makes exactly one withAuthRetry call
SingleOp(rq) ==
    \/ rq.route \in {"/ranks", "/accept-join", "/remove"}
    \/ rq.route = "/set-rank" /\ ~NotNullish(rq.roleId)

\* the first withAuthRetry call of the first request since process start
\* has ended in success after one invocation raised the signature, every
\* login of the call having succeeded
RetriedOnce(rq) ==
    /\ rq.first /\ rq.call = 1 /\ rq.step # "health"
    /\ rq.pc \in {"resume", "done"}
    /\ rq.err = "" /\ rq.nCsrf = 1 /\ ~rq.loginFailed

\* C2: for the first request since process start, when the first invocation
\* of the operation raises the session-invalidity signature and the second
\* succeeds (and the logins succeed), withAuthRetry has made exactly 2 login
\* calls and exactly 2 operation calls, and the response is a success.
C2_RetryOnceSucceeds ==
    \A r \in Slots :
        RetriedOnce(req[r]) =>
            /\ req[r].nLogin = 2
            /\ req[r].nOp = 2
            /\ (req[r].pc = "done" /\ SingleOp(req[r])) => req[r].resp.status = 200

C2_Witness ==
    \E r \in Slots :
        /\ RetriedOnce(req[r])
        /\ req[r].route = "/remove"
        /\ req[r].pc = "done"
        /\ req[r].resp.status = 200
        /\ req[r].nLogin = 2

\* the failure code each route documents for a failed remote operation
RouteFailureCode(route) ==
    CASE route = "/ranks" -> "ranks_failed"
      [] route = "/set-rank" -> "set_rank_failed"
      [] route = "/remove" -> "remove_failed"
      [] route = "/accept-join" -> "accept_join_failed"
      [] route = "/ensure-member-and-rank" -> "ensure_member_rank_failed"
      [] OTHER -> "none"

\* a withAuthRetry call has thrown after every pass of its loop invoked the
\* operation and every invocation raised the signature
Exhausted(rq) ==
    /\ rq.pc = "resume" /\ rq.step \notin {"health", "none"}
    /\ rq.err \in SignatureMsgs
    /\ rq.nOp > 0 /\ rq.nCsrf = rq.nOp /\ ~rq.loginFailed

\* C3 as written: when every attempt raises the signature the operation is
\* invoked exactly `tries` times, never more in one call, and the handler
\* then answers 500 with the failure code of its route.
C3_Original ==
    [][\A r \in Slots :
          /\ req'[r].nOp <= tries
          /\ Exhausted(req[r]) =>
                /\ req[r].nOp = tries
                /\ req'[r] # req[r] =>
                      /\ req'[r].pc = "done"
                      /\ req'[r].resp.status = 500
                      /\ req'[r].resp.error = RouteFailureCode(req[r].route)]_vars

\* C3 amended: as C3, but the accept-join step of /ensure-member-and-rank
\* is excepted from the 500: its failure is dropped and the handler goes on
\* with rank resolution (it never answers 500 in that step).
C3_ExhaustionBounded ==
    [][\A r \in Slots :
          /\ req'[r].nOp <= tries
          /\ Exhausted(req[r]) =>
                /\ req[r].nOp = tries
                /\ req'[r] # req[r] =>
                      IF req[r].route = "/ensure-member-and-rank" /\ req[r].step = "accept"
                      THEN req'[r].resp.status # 500
                      ELSE /\ req'[r].pc = "done"
                           /\ req'[r].resp.status = 500
                           /\ req'[r].resp.error = RouteFailureCode(req[r].route)]_vars

C3_Witness ==
    \E r \in Slots :
        /\ req[r].pc = "done"
        /\ req[r].route = "/remove"
        /\ req[r].err \in SignatureMsgs
        /\ req[r].nOp = tries /\ req[r].nCsrf = tries /\ ~req[r].loginFailed
        /\ req[r].resp.status = 500
        /\ req[r].resp.error = "remove_failed"

\* a remote call of a withAuthRetry call is pending
Awaiting(rq) == rq.pc \in {"awaitCookie", "awaitUser", "awaitOp"} /\ rq.step # "health"

\* C4: a failure inside withAuthRetry that does not match the signature is
\* never retried: the step that raises it ends the call (the failure
\* propagates), the operation is not invoked again, and the session flag
\* keeps its value; a wait before a retry only ever follows a signature
\* failure.
C4_OtherFailureNotRetried ==
    [][\A r \in Slots :
          /\ (Awaiting(req[r]) /\ req'[r].err \notin SignatureMsgs \cup {""}) =>
                /\ req'[r].pc = "resume"
                /\ req'[r].nOp = req[r].nOp
                /\ req'[r].i = req[r].i
                /\ authed' = authed
          /\ req'[r].pc = "delay" => req'[r].err \in SignatureMsgs]_vars

C4_Witness ==
    \E r \in Slots :
        /\ req[r].pc = "resume" /\ req[r].step = "exile"
        /\ req[r].err = MsgNotFound
        /\ req[r].i = 2 /\ req[r].nOp = 2
        /\ authed

\* C5 as written: whenever an attempt inside withAuthRetry has failed with
\* the signature, on the last attempt too, the session is unauthenticated
\* before withAuthRetry continues or returns.
C5_Claim ==
    \A r \in Slots :
        (/\ program = "server"
         /\ req[r].pc \in {"delay", "resume"}
         /\ req[r].step \notin {"health", "none"}
         /\ req[r].err \in SignatureMsgs) => ~authed

\* C6 as written: the session flag becomes authenticated only in a step
\* that ends a call in which the login and the self-identity check both
\* succeeded, and a failed login or identity check leaves it unauthenticated.
C6_Claim ==
    [][/\ (SessionFlag' /\ ~SessionFlag) =>
             \E r \in Slots :
                 /\ req[r].pc = "awaitUser"
                 /\ {"setCookie", "getCurrentUser"} \subseteq req[r].issued
                 /\ req'[r].err = ""
       /\ \A r \in Slots :
             (/\ req[r].pc \in {"awaitCookie", "awaitUser", "L_cookie"}
              /\ req'[r].err # "") => ~SessionFlag']_vars

\* the codes that answer a request with no rank target
MissingTargetCodes == {"missing_roleId_or_rankNumber", "rankNumber or roleId required"}

\* the codes that answer a request with a required field missing
MissingFieldCodes ==
    MissingTargetCodes \cup
        {"missing_robloxId", "robloxId required", "robloxId (or valid username) required"}

\* C7 as written: every /set-rank request with the right secret and a
\* robloxId but neither roleId nor rankNumber is answered 400 with the
\* missing-target code at once, and no remote call, login included, is made.
C7_Claim ==
    \A r \in Slots :
        (/\ req[r].pc # "idle"
         /\ req[r].route = "/set-rank" /\ req[r].key = "right"
         /\ req[r].robloxId = Num(7)
         /\ ~NotNullish(req[r].roleId) /\ ~NotNullish(req[r].rankNumber))
        => /\ req[r].pc = "done"
           /\ req[r].resp.status = 400
           /\ req[r].resp.error \in MissingTargetCodes
           /\ req[r].issued = {}

\* C8 as written: a request answered 400 for a missing required field has
\* caused no remote call.
C8_Claim ==
    \A r \in Slots :
        (/\ req[r].pc = "done"
         /\ req[r].resp.status = 400
         /\ req[r].resp.error \in MissingFieldCodes) => req[r].issued = {}

\* no role of the group has this id
NoSuchRole(roleId) == \A k \in 1..MaxRoleId : roleId # Num(k)

\* C9: once /set-rank or /ensure-member-and-rank has fetched the role list
\* and the given roleId matches no role of it, no set-rank call is issued
\* for the request and its answer is 400 invalid_roleId.
C9_InvalidRoleId ==
    \A r \in Slots :
        (/\ req[r].route \in {"/set-rank", "/ensure-member-and-rank"}
         /\ req[r].fetched
         /\ NoSuchRole(req[r].roleId)
         /\ req[r].pc # "resume")
        => /\ "setRank" \notin req[r].issued
           /\ req[r].pc = "done"
           /\ req[r].resp.status = 400
           /\ req[r].resp.error = "invalid_roleId"

C9_Witness ==
    \E r \in Slots :
        /\ req[r].route = "/ensure-member-and-rank"
        /\ req[r].fetched
        /\ req[r].roleId = Num(MaxRoleId + 1)
        /\ req[r].pc = "done"
        /\ req[r].resp.error = "invalid_roleId"

\* C10: in /ensure-member-and-rank a failed accept-join step never yields
\* the answer 500; when the rank-set call succeeds the answer is
\* {ok: true, appliedRank: N}, and N is the N of the preceding request when
\* that was the same route with the same input and also succeeded.
C10_AcceptFailureNotSurfaced ==
    [][\A r \in Slots :
          /\ (/\ req[r].route = "/ensure-member-and-rank"
               /\ req[r].pc = "resume" /\ req[r].step = "accept"
               /\ req[r].err # "" /\ req'[r] # req[r])
              => /\ req'[r].resp.status \notin {500, 200}
                 /\ req'[r].pc = "done" => req'[r].resp.error \in MissingTargetCodes
          /\ (/\ req'[r].route = "/ensure-member-and-rank"
               /\ req'[r].pc = "done" /\ req'[r].step = "rank" /\ req'[r].err = "")
              => /\ req'[r].resp.status = 200
                 /\ req'[r].resp.ok = "true"
                 /\ req'[r].resp.appliedRank = req'[r].rankToSet
                 /\ req'[r].repeat =>
                       req'[r].resp.appliedRank = req'[r].prevApplied]_vars

C10_Witness ==
    \E r \in Slots :
        /\ req[r].route = "/ensure-member-and-rank"
        /\ req[r].pc = "done"
        /\ req[r].swallowed
        /\ req[r].repeat
        /\ req[r].roleId = Num(MaxRoleId)
        /\ req[r].resp.status = 200
        /\ req[r].resp.appliedRank = req[r].prevApplied

\* the remote calls that change the group
MutatingCalls == {"setRank", "exile", "handleJoinRequest"}

\* the routes that act on one member
MemberRoutes == {"/accept-join", "/set-rank", "/remove", "/ensure-member-and-rank"}

\* the request names no member: its identifier is absent or not a number,
\* and on /remove of part_000 a username, when one stands in for the absent
\* identifier, has not resolved to one
NoMemberId(rq) ==
    /\ ~Truthy(rq.robloxId) \/ IsNaNNumber(rq.robloxId)
    /\ (program = "legacy" /\ rq.route = "/remove" /\ ~Truthy(rq.robloxId)
          /\ Truthy(rq.username)) => rq.target = Null

\* C11 as written: on every route that acts on a member, a request with the
\* right secret whose member identifier is absent or not a number (and, on
\* /remove, not resolved from a username) issues no mutating remote call,
\* and its answer, unless a remote call of it failed, is 400.
C11_Claim ==
    \A r \in Slots :
        (/\ req[r].pc # "idle"
         /\ req[r].route \in MemberRoutes /\ req[r].key = "right"
         /\ NoMemberId(req[r]))
        => /\ req[r].issued \cap MutatingCalls = {}
           /\ (req[r].pc = "done" /\ req[r].err = "") => req[r].resp.status = 400

\* the documented error codes of the two entry points
ErrorCodes ==
    MissingFieldCodes \cup
        {"unauthorized", "invalid_roleId", "ranks_failed", "get_ranks_failed",
         "accept_join_failed", "set_rank_failed", "remove_failed", "removal_failed",
         "ensure_member_rank_failed"}

\* the texts of remote and authentication failures
FailureTexts == RemoteMsgs \cup {MsgSanity}

\* C12 as written: every answer is a JSON body, either a success body with
\* ok = true and status 200 or a failure body {error: code} with status 401,
\* 400 or 500 and a code of the fixed set, and no answer carries the text of
\* a remote or authentication failure.
C12_Claim ==
    \A r \in Slots :
        req[r].pc = "done" =>
            /\ req[r].resp.kind = "json"
            /\ \/ /\ req[r].resp.status = 200
                  /\ req[r].resp.ok = "true" /\ req[r].resp.error = ""
               \/ /\ req[r].resp.status \in {401, 400, 500}
                  /\ req[r].resp.ok = "absent" /\ req[r].resp.error \in ErrorCodes
            /\ req[r].resp.error \notin FailureTexts

\* the failure code each route of part_000 sends from its catch block
LegacyFailureCode(route) ==
    CASE route = "/ranks" -> "get_ranks_failed"
      [] route = "/set-rank" -> "set_rank_failed"
      [] route = "/remove" -> "removal_failed"
      [] OTHER -> "none"

\* the request has been answered after a remote call of it ended in a
\* failure that its handler does not discard
AnsweredAfterFailure(rq) ==
    /\ rq.pc = "done" /\ rq.err # ""
    /\ rq.route \notin {"/health", "/"}
    /\ ~(rq.route = "/ensure-member-and-rank" /\ rq.step = "accept")

MissingConfig ==
    ~Truthy(config.cookie) \/ ~Truthy(config.groupId) \/ ~Truthy(config.secret)

\* C14: when a mandatory setting is missing, the step that ends startup
\* ends the process with exit status 1, the process never listens, and no
\* request is ever taken up.
C14_MissingConfigExits ==
    [][MissingConfig =>
          /\ proc' # "listening"
          /\ (proc = "starting" /\ proc' # proc) => (proc' = "exited" /\ exitCode' = 1)
          /\ proc = "exited" => proc' = "exited"
          /\ \A r \in Slots : req'[r].pc = "idle"
          /\ fresh']_vars

C14_Witness ==
    /\ Truthy(config.cookie) /\ config.groupId = NumStr(7) /\ ~Truthy(config.secret)
    /\ proc = "exited" /\ exitCode = 1
    /\ \A r \in Slots : req[r].pc = "idle"

\* the body supplies exactly one of roleId and rankNumber
ExactlyOneTarget(rq) == NotNullish(rq.roleId) # NotNullish(rq.rankNumber)

\* C15 as written: a /set-rank or /ensure-member-and-rank request with the
\* right secret and a member id that supplies neither or both of roleId and
\* rankNumber leads to no set-rank call, and its answer, unless a remote
\* call of it failed, is 400.
C15_Claim ==
    \A r \in Slots :
        (/\ req[r].pc # "idle"
         /\ req[r].route \in {"/set-rank", "/ensure-member-and-rank"}
         /\ req[r].key = "right" /\ req[r].robloxId = Num(7)
         /\ ~ExactlyOneTarget(req[r]))
        => /\ "setRank" \notin req[r].issued
           /\ (req[r].pc = "done" /\ req[r].err = "") => req[r].resp.status = 400

\* C16 as written: when requests overlap and the remote session expires at
\* most once, every request whose operation succeeds on a valid session is
\* answered with success, whatever the order of the updates of the flag.
C16_Claim ==
    \A r \in Slots :
        req[r].pc = "done" => /\ req[r].resp.status = 200
                              /\ req[r].resp.ok = "true"

\* the rank that the answer of a successful rank request reports
ReportedRank(rq) ==
    IF program = "server" THEN rq.resp.appliedRank ELSE rq.resp.rankNumber

\* C17: a /set-rank or /ensure-member-and-rank request answered 200 has
\* issued the set-rank call, and the rank in its answer is the rank passed to
\* that call; in server.mjs, where the answer names it appliedRank, that
\* rank is the number given as rankNumber when roleId is not given, and
\* otherwise the rank of the role of the fetched list whose id is roleId.
C17_AppliedRank ==
    \A r \in Slots :
        (/\ req[r].pc = "done"
         /\ req[r].route \in {"/set-rank", "/ensure-member-and-rank"}
         /\ req[r].resp.status = 200)
        => /\ "setRank" \in req[r].issued
           /\ ReportedRank(req[r]) = req[r].setRankArg
           /\ req[r].setRankArg.t = "number"
           /\ (program = "server" /\ ~NotNullish(req[r].roleId)) =>
                  req[r].setRankArg.v = req[r].rankNumber.v
           /\ (program = "server" /\ NotNullish(req[r].roleId)) =>
                  /\ req[r].fetched
                  /\ \E k \in 1..MaxRoleId :
                        /\ GroupRoles[k].id.v = req[r].roleId.v
                        /\ req[r].setRankArg.v = GroupRoles[k].rank.v

C17_Witness ==
    \E r \in Slots :
        /\ program = "server"
        /\ req[r].pc = "done" /\ req[r].route = "/set-rank"
        /\ req[r].roleId = Num(MaxRoleId) /\ req[r].rankNumber = Undef
        /\ req[r].resp.status = 200
        /\ req[r].resp.appliedRank = GroupRoles[MaxRoleId].rank
        /\ req[r].setRankArg = GroupRoles[MaxRoleId].rank

\* the routes served without the shared secret
ProbeRoutes == {"/health", "/"}

\* C18 as written: the health probe is the only route served without the
\* secret; the step that answers a probe answers 200 {ok: true, groupId}
\* exactly when the probe's own call of ensureAuth succeeded, the session
\* being authenticated then, and 500 when it failed, the session being
\* unauthenticated then; the probe makes no call but those of one login.
C18_Claim ==
    [][\A r \in Slots :
          /\ (/\ req'[r].pc # "idle" /\ req[r].pc = "idle"
               /\ req'[r].route \notin ProbeRoutes /\ req'[r].key # "right")
              => req'[r].resp.status = 401
          /\ (/\ req'[r].pc = "done" /\ req[r].pc # "done"
               /\ req'[r].route \in ProbeRoutes)
              => /\ req'[r].key # "right" => req'[r].resp.status # 401
                 /\ req'[r].issued \subseteq {"setCookie", "getCurrentUser"}
                 /\ req'[r].nLogin <= 1 /\ req'[r].call = 0
                 /\ \/ /\ req'[r].err = ""
                       /\ req'[r].resp.status = 200
                       /\ req'[r].resp.kind = "json" /\ req'[r].resp.ok = "true"
                       /\ req'[r].resp.groupId # "absent"
                       /\ SessionFlag'
                    \/ /\ req'[r].err # ""
                       /\ req'[r].resp.status = 500
                       /\ ~SessionFlag']_vars

\* C19: a request is answered at most once, it has been answered exactly
\* once when its handler has ended, and, every remote call settling, every
\* request that has been taken up is answered.
C19_ExactlyOneResponse ==
    /\ [](\A r \in Slots :
             /\ req[r].nResp <= 1
             /\ (req[r].pc = "done") <=> (req[r].nResp = 1)
             /\ (req[r].nResp = 1) <=> (req[r].resp.kind # "none"))
    /\ \A r \in Slots :
          (req[r].pc # "idle") ~> (req[r].pc = "done" /\ req[r].nResp = 1)

C19_Witness ==
    \E r \in Slots :
        /\ program = "server"
        /\ req[r].route = "/ensure-member-and-rank"
        /\ req[r].pc = "done" /\ req[r].nResp = 1
        /\ req[r].swallowed /\ req[r].fetched
        /\ req[r].resp.status = 400 /\ req[r].resp.error = "invalid_roleId"

\* the step takes the request in slot r into ensureAuth (ensureLogin in
\* part_000): a handler starts, goes on to its next call, or retries
CallsEnsureAuth(r) ==
    /\ req[r].pc \in {"idle", "resume", "delay"}
    /\ req'[r].pc \in {"awaitCookie", "callOp", "awaitOp", "L_cookie", "L_op", "L_id"}
       \/ (req[r].pc = "idle" /\ req'[r].route = "/health")
       \/ (req[r].pc = "idle" /\ program = "legacy" /\ req'[r].pc = "done"
            /\ req'[r].route # "/" /\ req'[r].key = "right")

\* the remote calls of this step of slot r
IssuedNow(r) ==
    req'[r].issued \ (IF req[r].pc = "idle" THEN {} ELSE req[r].issued)

\* C20: a step that calls ensureAuth while the session flag is set issues no
\* login call, does not wait for one, and leaves the flag set; a step whose
\* catch block invalidates the session while the flag is already clear
\* leaves it clear, and changes nothing of the other requests.
C20_NoOpWhenSettled ==
    [][\A r \in Slots :
          /\ (SessionFlag /\ CallsEnsureAuth(r))
              => /\ IssuedNow(r) \cap {"setCookie", "getCurrentUser"} = {}
                 /\ req'[r].pc \notin {"awaitCookie", "awaitUser", "L_cookie"}
                 /\ req'[r].nLogin = IF req[r].pc = "delay" THEN req[r].nLogin ELSE 0
                 /\ SessionFlag'
          /\ (~SessionFlag /\ req[r].pc \in {"awaitCookie", "awaitUser", "awaitOp"}
               /\ req'[r].pc = "delay")
              => /\ ~SessionFlag'
                 /\ \A q \in Slots \ {r} : req'[q] = req[q]
                 /\ UNCHANGED <<program, loggedIn, fresh, prev, env, remote>>]_vars

C20_Witness ==
    \E r \in Slots :
        /\ authed
        /\ req[r].pc = "callOp" /\ req[r].step = "rank" /\ req[r].call = 2
        /\ req[r].nLogin = 0
        /\ "setCookie" \notin req[r].issued

====
